---- MODULE Spec2Model ----
(***************************************************************************)
(* diamond_square (worldgenlib/synthesis/_diamond_square.py) as a state    *)
(* machine.  One call of the function is one behaviour: the arguments are  *)
(* chosen in Init, the straight-line parts of the body are one action      *)
(* each, and every iteration of the diamond loop and of the square loop    *)
(* is one action, so that the reads and the write of each per-cell update  *)
(* are visible in the state.                                               *)
(*                                                                         *)
(* Numbers.  The heights are real numbers of the form (a + b*sqrt(2))/Den, *)
(* written <<a, b>>: the corner values and the displacement field are      *)
(* integers here, every mean divides by 1..4 and current_scale is a power  *)
(* of 1/sqrt(2), so with Den = 12^(two per level) all the arithmetic of a  *)
(* run is exact (last.exact records that no division had a remainder).     *)
(* Rounding of IEEE doubles is not modelled.                               *)
(***************************************************************************)
EXTENDS Integers, Sequences, FiniteSets, TLC

\* ---------------------------------------------------------------- bounds
MaxSize == 8
MaxSquares == 2

SquareSizes == 1..MaxSize
SquareCounts == (-1)..MaxSquares
PrimaryScales == {0, 1}
Roughnesses == {0, 1}
BaseLevels == {0, 5}
Seeds == {0, 1}

\* ------------------------------------------------------------ arithmetic
RECURSIVE Log2(_)
Log2(n) == IF n < 2 THEN 0 ELSE 1 + Log2(n \div 2)

RECURSIVE IsPow2(_)
IsPow2(n) == IF n = 1 THEN TRUE
             ELSE IF n < 1 \/ n % 2 # 0 THEN FALSE
             ELSE IsPow2(n \div 2)

RECURSIVE Pow(_, _)
Pow(b, e) == IF e = 0 THEN 1 ELSE b * Pow(b, e - 1)

Den == Pow(12, 2 * Log2(MaxSize))

NaN == <<>>
None == <<>>
Zero == <<0, 0>>
V(n) == <<n * Den, 0>>

VAdd(u, v) == IF u = NaN \/ v = NaN THEN NaN ELSE <<u[1] + v[1], u[2] + v[2]>>

VScale(s, n) == <<s[1] * n, s[2] * n>>

RECURSIVE VSum(_)
VSum(vals) == IF vals = <<>> THEN Zero ELSE VAdd(Head(vals), VSum(Tail(vals)))

Divides(n, v) == v = NaN \/ n = 0 \/ (v[1] % n = 0 /\ v[2] % n = 0)

VDiv(v, n) == IF v = NaN \/ n = 0 THEN NaN ELSE <<v[1] \div n, v[2] \div n>>

\* np.mean: the sum over the number of values; a NaN operand makes it NaN.
mean(vals) == VDiv(VSum(vals), Len(vals))

NotNaN(v) == v # NaN

\* np.nanmean: the mean of the values that are not NaN (NaN when there is none).
nanmean_zero_fill(vals) ==
    VDiv(VSum([k \in DOMAIN vals |-> IF vals[k] = NaN THEN Zero ELSE vals[k]]), Len(vals))

nanmean(vals) == mean(SelectSeq(vals, NotNaN))

Sqrt2 == <<0, Den>>

\* current_scale /= np.sqrt(2):  (a + b*sqrt2)/sqrt2 = b + (a/2)*sqrt2
DivSqrt2_by_two(s) == <<s[1] \div 2, s[2] \div 2>>

DivSqrt2(s) == <<s[2], s[1] \div 2>>

\* ------------------------------------------------------------------- rng
\* The generator is a stream: the k-th variate depends on the seed and on k.
StdExponential(seed, k) == (seed + k + (k \div 2)) % 3

StdNormal(seed, k) == ((2 * seed + k + (k \div 3)) % 3) - 1

\* --------------------------------------------------------------- indexing
Grid(shape) == (0..(shape[1] - 1)) \X (0..(shape[2] - 1))

\* len(range(0, stop, step)) for stop >= 0, step >= 1
SliceLen(stop, step) == (stop + step - 1) \div step

\* numpy indexing: -n..-1 count from the end, anything else outside 0..n-1 raises
InRange(idx, shape) == /\ -shape[1] <= idx[1] /\ idx[1] < shape[1]
                       /\ -shape[2] <= idx[2] /\ idx[2] < shape[2]

Wrap(x, n) == IF x < 0 THEN x + n ELSE x

At(idx, shape) == <<Wrap(idx[1], shape[1]), Wrap(idx[2], shape[2])>>

Range(s) == {s[k] : k \in DOMAIN s}

VARIABLES
    args,           \* the arguments of the call, and the seed of rng
    pc,             \* position in the body
    err,            \* the exception raised, "" when none
    rng,            \* number of variates drawn from rng so far
    sz, num_squares, shape, h, primary_scale, roughness,
    corner_values, randoms, current_scale,
    order,          \* the (i, j) the running diamond or square loop iterates over
    k,              \* position in order
    phase,          \* 0 before the corners, 1 = corners, then +1 per step
    stamp,          \* cell -> phase of its last write (0: still the zero fill)
    writes,         \* cell -> number of assignments
    last            \* the latest per-cell update

vars == <<args, pc, err, rng, sz, num_squares, shape, h, primary_scale, roughness,
          corner_values, randoms, current_scale, order, k, phase, stamp, writes,
          last>>

NoUpdate == [kind |-> "none", ij |-> None, cell |-> None, reads |-> {}, disp |-> None,
             n |-> 0, scale |-> Zero, sz |-> 0, ns |-> <<0, 0>>, phase |-> 0,
             readStamps |-> {}, prev |-> 0, exact |-> TRUE]

Init ==
    /\ args \in [square_size : SquareSizes,
                 num_squares : SquareCounts \X SquareCounts,
                 primary_scale : PrimaryScales,
                 roughness : Roughnesses,
                 base_level : BaseLevels,
                 seed : Seeds]
    /\ pc = "start"
    /\ err = ""
    /\ rng = 0
    /\ sz = 0
    /\ num_squares = args.num_squares
    /\ shape = <<0, 0>>
    /\ h = <<>>
    /\ primary_scale = <<>>
    /\ roughness = <<>>
    /\ corner_values = <<>>
    /\ randoms = <<>>
    /\ current_scale = Zero
    /\ order = <<>>
    /\ k = 0
    /\ phase = 0
    /\ stamp = <<>>
    /\ writes = <<>>
    /\ last = NoUpdate

\* lines 17-29: sz, the zero grid, the scalar parameters cast to arrays
Setup ==
    /\ pc = "start"
    /\ LET s == args.square_size
           shp == <<num_squares[1] * s + 1, num_squares[2] * s + 1>>
       IN /\ sz' = s
          /\ IF shp[1] < 0 \/ shp[2] < 0
             THEN /\ pc' = "failed"
                  /\ err' = "ValueError"
                  /\ UNCHANGED <<shape, h, primary_scale, roughness, stamp, writes>>
             ELSE /\ pc' = "draw"
                  /\ err' = err
                  /\ shape' = shp
                  /\ h' = [c \in Grid(shp) |-> Zero]
                  /\ primary_scale' = [c \in Grid(shp) |-> args.primary_scale]
                  /\ roughness' = [c \in Grid(shp) |-> args.roughness]
                  /\ stamp' = [c \in Grid(shp) |-> 0]
                  /\ writes' = [c \in Grid(shp) |-> 0]
    /\ UNCHANGED <<args, rng, num_squares, corner_values, randoms, current_scale,
                   order, k, phase, last>>

\* lines 32-38: the corner values and the displacement field, two batched draws
CornerShape == <<SliceLen(shape[1], sz), SliceLen(shape[2], sz)>>

Draw ==
    /\ pc = "draw"
    /\ LET cs == CornerShape
           nc == cs[1] * cs[2]
       IN /\ corner_values' =
                [c \in Grid(cs) |->
                    args.base_level
                    + primary_scale[<<c[1] * sz, c[2] * sz>>]
                      * StdExponential(args.seed, rng + c[1] * cs[2] + c[2])]
          /\ randoms' =
                [c \in Grid(shape) |->
                    primary_scale[c] * roughness[c]
                    * StdNormal(args.seed, rng + nc + c[1] * shape[2] + c[2])]
          /\ rng' = rng + nc + shape[1] * shape[2]
    /\ pc' = "corners"
    /\ UNCHANGED <<args, err, sz, num_squares, shape, h, primary_scale, roughness,
                   current_scale, order, k, phase, stamp, writes, last>>

\* np.ndindex(dims): the index tuples in row-major order
ndindex(dims) == IF dims[1] <= 0 \/ dims[2] <= 0 THEN <<>>
                 ELSE [q \in 1..(dims[1] * dims[2]) |->
                          <<(q - 1) \div dims[2], (q - 1) % dims[2]>>]

\* lines 40-46: the corners, then current_scale = sqrt(2)
InitCorners ==
    /\ pc = "corners"
    /\ LET ix == Range(ndindex(<<num_squares[1] + 1, num_squares[2] + 1>>))
           cells == {<<c[1] * sz, c[2] * sz>> : c \in ix}
       IN /\ h' = [c \in DOMAIN h |->
                     IF c \in cells THEN V(corner_values[<<c[1] \div sz, c[2] \div sz>>])
                     ELSE h[c]]
          /\ stamp' = [c \in DOMAIN stamp |-> IF c \in cells THEN 1 ELSE stamp[c]]
          /\ writes' = [c \in DOMAIN writes |->
                          IF c \in cells THEN writes[c] + 1 ELSE writes[c]]
    /\ phase' = 1
    /\ current_scale' = Sqrt2
    /\ pc' = "loop"
    /\ UNCHANGED <<args, err, rng, sz, num_squares, shape, primary_scale, roughness,
                   corner_values, randoms, order, k, last>>

\* line 49: assert sz % 2 == 0
SizeAssert_removed(s) == TRUE

SizeAssert(s) == s % 2 = 0

\* lines 48-49 and 88: the loop test, the assertion, the return
LoopTest ==
    /\ pc = "loop"
    /\ IF sz >= 2
       THEN IF SizeAssert(sz)
            THEN pc' = "diamond" /\ err' = err /\ phase' = phase + 1
            ELSE pc' = "failed" /\ err' = "AssertionError" /\ phase' = phase
       ELSE pc' = "done" /\ err' = err /\ phase' = phase
    /\ order' = ndindex(num_squares)
    /\ k' = 0
    /\ UNCHANGED <<args, rng, sz, num_squares, shape, h, primary_scale, roughness,
                   corner_values, randoms, current_scale, stamp, writes, last>>

\* One per-cell update: read `samples` (None = a skipped neighbour), take their
\* mean, add current_scale * randoms[cell], store at cell.  `last` records what
\* the update read and wrote.
Update(kind, ij, samples, cell, use_nanmean) ==
    LET reads == Range(samples) \ {None}
    IN IF \A x \in reads \cup {cell} : InRange(x, shape)
       THEN LET vals == [q \in DOMAIN samples |->
                            IF samples[q] = None THEN NaN ELSE h[At(samples[q], shape)]]
                kept == SelectSeq(vals, NotNaN)
                c == IF use_nanmean THEN nanmean(vals) ELSE mean(vals)
                displacement == VScale(current_scale, randoms[At(cell, shape)])
                w == At(cell, shape)
            IN /\ h' = [h EXCEPT ![w] = VAdd(c, displacement)]
               /\ stamp' = [stamp EXCEPT ![w] = phase]
               /\ writes' = [writes EXCEPT ![w] = @ + 1]
               /\ last' = [kind |-> kind, ij |-> ij, cell |-> cell, reads |-> reads,
                           disp |-> cell,
                           n |-> IF use_nanmean THEN Len(kept) ELSE Len(vals),
                           scale |-> current_scale, sz |-> sz, ns |-> num_squares,
                           phase |-> phase,
                           readStamps |-> {stamp[At(x, shape)] : x \in reads},
                           prev |-> stamp[w],
                           exact |-> last.exact
                                     /\ Divides(IF use_nanmean THEN Len(kept) ELSE Len(vals),
                                                VSum(IF use_nanmean THEN kept ELSE vals))]
               /\ pc' = pc
               /\ err' = err
               /\ k' = k + 1
       ELSE /\ pc' = "failed"
            /\ err' = "IndexError"
            /\ last' = [NoUpdate EXCEPT !.kind = kind, !.ij = ij, !.cell = cell,
                                        !.reads = reads, !.disp = cell, !.sz = sz,
                                        !.ns = num_squares, !.phase = phase,
                                        !.exact = last.exact]
            /\ UNCHANGED <<h, stamp, writes, k>>

\* lines 54-57: the 4 corners of square (i, j)
DiamondSamples(i, j, s) ==
    << <<i * s, j * s>>, <<i * s, (j + 1) * s>>,
       <<(i + 1) * s, (j + 1) * s>>, <<(i + 1) * s, j * s>> >>

\* lines 60-61: the centre of square (i, j)
DiamondCenter_corner(i, j, s) == <<i * s + s, j * s + s>>

DiamondCenter(i, j, s) == <<i * s + s \div 2, j * s + s \div 2>>

\* lines 52-61: one iteration of the diamond loop
DiamondCell ==
    /\ pc = "diamond"
    /\ k < Len(order)
    /\ LET ij == order[k + 1]
       IN Update("diamond", ij, DiamondSamples(ij[1], ij[2], sz),
                 DiamondCenter(ij[1], ij[2], sz), FALSE)
    /\ UNCHANGED <<args, rng, sz, num_squares, shape, primary_scale, roughness,
                   corner_values, randoms, current_scale, order, phase>>

\* lines 69-72: the rows i visited in column j
irange_swapped(j, n0) ==
    IF j % 2 = 0
    THEN [q \in 1..((n0 + 2) \div 2) |-> 2 * (q - 1)]
    ELSE [q \in 1..(n0 \div 2) |-> 2 * q - 1]

irange_short(j, n0) ==
    IF j % 2 = 0
    THEN [q \in 1..(n0 \div 2) |-> 2 * q - 1]
    ELSE [q \in 1..((n0 + 1) \div 2) |-> 2 * (q - 1)]

irange(j, n0) ==
    IF j % 2 = 0
    THEN [q \in 1..(n0 \div 2) |-> 2 * q - 1]
    ELSE [q \in 1..((n0 + 2) \div 2) |-> 2 * (q - 1)]

\* lines 68-74: the (i, j) of the square loop, in loop order
RECURSIVE SquareOrderFrom(_, _)
SquareOrderFrom(j, n) ==
    IF j > n[2] THEN <<>>
    ELSE [q \in DOMAIN irange(j, n[1]) |-> <<irange(j, n[1])[q], j>>]
         \o SquareOrderFrom(j + 1, n)

SquareOrder(n) == SquareOrderFrom(0, n)

\* lines 63-65: after the diamond loop
DiamondEnd ==
    /\ pc = "diamond"
    /\ k = Len(order)
    /\ num_squares' = <<num_squares[1] * 2, num_squares[2] * 2>>
    /\ sz' = sz \div 2
    /\ current_scale' = DivSqrt2(current_scale)
    /\ pc' = "square"
    /\ order' = SquareOrder(num_squares')
    /\ k' = 0
    /\ phase' = phase + 1
    /\ UNCHANGED <<args, err, rng, shape, h, primary_scale, roughness, corner_values,
                   randoms, stamp, writes, last>>

\* lines 76-80: the 4 directions, NaN for a direction the guard rejects
SquareSamples_unguarded(i, j, n, s) ==
    << <<(i - 1) * s, j * s>>,
       <<i * s, (j - 1) * s>>,
       IF i < n[1] - 1 THEN <<(i + 1) * s, j * s>> ELSE None,
       IF j < n[2] - 1 THEN <<i * s, (j + 1) * s>> ELSE None >>

SquareSamples_late(i, j, n, s) ==
    << IF i > 1 THEN <<(i - 1) * s, j * s>> ELSE None,
       IF j > 1 THEN <<i * s, (j - 1) * s>> ELSE None,
       IF i < n[1] - 1 THEN <<(i + 1) * s, j * s>> ELSE None,
       IF j < n[2] - 1 THEN <<i * s, (j + 1) * s>> ELSE None >>

SquareSamples(i, j, n, s) ==
    << IF i > 0 THEN <<(i - 1) * s, j * s>> ELSE None,
       IF j > 0 THEN <<i * s, (j - 1) * s>> ELSE None,
       IF i < n[1] - 1 THEN <<(i + 1) * s, j * s>> ELSE None,
       IF j < n[2] - 1 THEN <<i * s, (j + 1) * s>> ELSE None >>

\* lines 74-84: one iteration of the square loop
SquareCell ==
    /\ pc = "square"
    /\ k < Len(order)
    /\ LET ij == order[k + 1]
       IN Update("square", ij, SquareSamples(ij[1], ij[2], num_squares, sz),
                 <<ij[1] * sz, ij[2] * sz>>, TRUE)
    /\ UNCHANGED <<args, rng, sz, num_squares, shape, primary_scale, roughness,
                   corner_values, randoms, current_scale, order, phase>>

\* line 86: after the square loop
SquareEnd ==
    /\ pc = "square"
    /\ k = Len(order)
    /\ current_scale' = DivSqrt2(current_scale)
    /\ pc' = "loop"
    /\ UNCHANGED <<args, err, rng, sz, num_squares, shape, h, primary_scale, roughness,
                   corner_values, randoms, order, k, phase, stamp, writes, last>>

Next == \/ Setup
        \/ Draw
        \/ InitCorners
        \/ LoopTest
        \/ DiamondCell
        \/ DiamondEnd
        \/ SquareCell
        \/ SquareEnd

Spec == Init /\ [][Next]_vars

\* The model's arithmetic is exact: no mean ever divided with a remainder.
ArithmeticExact == last.exact

\* ------------------------------------------------------------------ claims
S == args.square_size
R == args.num_squares[1]
C == args.num_squares[2]

ValidArgs == IsPow2(S) /\ R >= 1 /\ C >= 1

NonPow2Size == S >= 2 /\ ~IsPow2(S)

Stepping == last.kind \in {"diamond", "square"}

NothingWritten == \A c \in DOMAIN writes : writes[c] = 0

CornerCells == {<<i * S, j * S>> : i \in 0..R, j \in 0..C}

C2_RejectsNumSquares ==
    (IsPow2(S) /\ (R < 1 \/ C < 1)) => pc # "done"

\* The neighbours of lattice point ij at stride s that lie inside the grid.
InsideNeighbours(ij, s) ==
    {x \in {<<(ij[1] - 1) * s, ij[2] * s>>, <<(ij[1] + 1) * s, ij[2] * s>>,
            <<ij[1] * s, (ij[2] - 1) * s>>, <<ij[1] * s, (ij[2] + 1) * s>>} :
        /\ 0 <= x[1] /\ x[1] < shape[1]
        /\ 0 <= x[2] /\ x[2] < shape[2]}

\* C3 (as stated): a square-step update omits a neighbour from the mean exactly
\* when it lies outside the grid (3 neighbours on the boundary, 4 inside).
C3_OmittedIffOutside ==
    (ValidArgs /\ last.kind = "square") =>
        /\ last.reads = InsideNeighbours(last.ij, last.sz)
        /\ last.n = Cardinality(InsideNeighbours(last.ij, last.sz))

\* C4: after the corner initialization every corner cell (i*S, j*S) holds the
\* value sampled for it, base_level plus its exponential variate, and no
\* diamond or square update writes a corner cell.
C4_CornerInvariance ==
    (ValidArgs /\ pc \in {"loop", "diamond", "square", "done"}) =>
        /\ \A i \in 0..R, j \in 0..C :
              /\ h[<<i * S, j * S>>] = V(corner_values[<<i, j>>])
              /\ corner_values[<<i, j>>] =
                    args.base_level
                    + args.primary_scale * StdExponential(args.seed, i * (C + 1) + j)
        /\ Stepping => At(last.cell, shape) \notin CornerCells

C4_Witness ==
    /\ ValidArgs /\ pc = "done" /\ S = 4 /\ R = 2 /\ C = 2
    /\ args.primary_scale = 1 /\ args.roughness = 1
    /\ \E i \in 0..R, j \in 0..C :
          /\ corner_values[<<i, j>>] > args.base_level
          /\ h[<<i * S, j * S>>] = V(corner_values[<<i, j>>])
    /\ \E c \in DOMAIN h : h[c][2] # 0

C6_EachCellOnce ==
    ValidArgs =>
        /\ \A c \in DOMAIN writes : writes[c] <= 1
        /\ pc = "done" =>
              /\ sz = 1
              /\ shape = <<R * S + 1, C * S + 1>>
              /\ DOMAIN h = Grid(shape)
              /\ \A c \in DOMAIN h : writes[c] = 1 /\ stamp[c] >= 1

C6_Witness ==
    /\ ValidArgs /\ pc = "done" /\ S = 4 /\ R = 2 /\ C = 1 /\ sz = 1
    /\ \A c \in Grid(<<9, 5>>) : writes[c] = 1

\* The cells written by the updates of the running step.
StepCells ==
    IF pc = "diamond"
    THEN {DiamondCenter(x[1], x[2], sz) : x \in Range(order)}
    ELSE {<<x[1] * sz, x[2] * sz>> : x \in Range(order)}

\* C7: every cell an update of a diamond or square step reads was written in
\* an earlier step (not in this step, not still unset), no cell it reads is
\* written by any update of its own step, and the updates of one step write
\* pairwise different cells: the updates of a step do not depend on their order.
C7_StepUpdatesIndependent ==
    (ValidArgs /\ Stepping) =>
        /\ \A t \in last.readStamps : 1 <= t /\ t < last.phase
        /\ last.prev # last.phase
        /\ pc = last.kind =>
              /\ last.reads \cap StepCells = {}
              /\ Cardinality(StepCells) = Len(order)

C7_Witness ==
    /\ ValidArgs /\ last.kind = "square" /\ last.phase = 5
    /\ Cardinality(last.reads) = 4
    /\ last.readStamps = {2, 3, 4}

\* C8: every index used to read or write the grid or the displacement field in
\* a diamond or square update lies in [0, R*S] x [0, C*S].
C8_IndicesInsideGrid ==
    (ValidArgs /\ Stepping) =>
        \A x \in last.reads \cup {last.cell, last.disp} :
            /\ 0 <= x[1] /\ x[1] <= R * S
            /\ 0 <= x[2] /\ x[2] <= C * S

C8_Witness ==
    /\ ValidArgs /\ last.kind = "square" /\ pc = "square"
    /\ last.ij[1] = 0 /\ last.ij[2] = last.ns[2] - 1
    /\ last.cell[2] + last.sz = C * S
    /\ Cardinality(last.reads) >= 2

\* C9: counted in factors of 1/sqrt(2), current_scale is sqrt(2) before the
\* first diamond step, the diamond step of level k uses sqrt(2) * 2^(-k) and
\* the square step of level k uses 2^(-k).
Level == (last.phase - 2) \div 2

C9_ScaleSchedule ==
    ValidArgs =>
        /\ (pc = "loop" /\ phase = 1) => current_scale = Sqrt2
        /\ last.kind = "diamond" =>
              /\ last.phase = 2 * Level + 2
              /\ last.sz * Pow(2, Level) = S
              /\ last.scale[1] = 0
              /\ last.scale[2] * Pow(2, Level) = Den
        /\ last.kind = "square" =>
              /\ last.phase = 2 * Level + 3
              /\ last.sz * Pow(2, Level + 1) = S
              /\ last.scale[2] = 0
              /\ last.scale[1] * Pow(2, Level) = Den

C9_Witness ==
    /\ ValidArgs /\ last.kind = "square" /\ Level = 1
    /\ last.scale = <<Den \div 2, 0>>
    /\ S = 4

\* C10: every point filled by a square step has at least 2 neighbours in its
\* mean.
C10_AtLeastTwoNeighbours ==
    (ValidArgs /\ S >= 2 /\ last.kind = "square") => last.n >= 2

C10_Witness ==
    /\ ValidArgs /\ S >= 2 /\ last.kind = "square" /\ pc = "square"
    /\ last.n = 2 /\ Cardinality(last.reads) = 2

====
